---- MODULE Spec2Model ----
(***************************************************************************)
(* A model of generate_publications.py: the bibliography formatter, the    *)
(* marker splicer and the script that runs them over CV.tex, CV-Full.tex   *)
(* and index.html.                                                         *)
(*                                                                         *)
(* A Python str is modelled as a sequence of characters; a character is a  *)
(* one-character string, or "U+XXXX" for a character outside ASCII.        *)
(* Indices and slices keep Python's 0-based, end-exclusive conventions.    *)
(***************************************************************************)
EXTENDS Integers, Sequences, FiniteSets, TLC

VARIABLES
    pc,             \* where the script is
    bib_entries,    \* bib.entries, the records of Publications.bib
    talks_entries,  \* talks.entries, the records of Talks.bib
    buckets,        \* the eight lists of formatted fragments
    files,          \* CV.tex, CV-Full.tex and index.html on disk
    texfile,        \* the index of the loops over [cvfile, CV-Full.tex]
    entry_index,    \* the index of the loops over the entries
    region,         \* which of the four splices of a document is next
    cv,             \* the text of the .tex file being spliced
    html_text,      \* html, the text of index.html being spliced
    printed,        \* the files the script has reported as updated
    sp,             \* the splicer applied to one text, and then again
    od              \* the four splices of one document, in some order

vars == <<pc, bib_entries, talks_entries, buckets, files, texfile,
          entry_index, region, cv, html_text, printed, sp, od>>

script_vars == <<pc, bib_entries, talks_entries, buckets, files, texfile,
                 entry_index, region, cv, html_text, printed>>

----------------------------------------------------------------------------
(* Python str primitives *)

Min(S) == CHOOSE x \in S : \A y \in S : x <= y

Max(S) == CHOOSE x \in S : \A y \in S : x >= y

\* text[i:j] for 0 <= i, j (Python clamps j to len(text))
Slice(text, i, j) ==
    LET hi == IF j > Len(text) THEN Len(text) ELSE j
    IN  IF i >= hi THEN << >> ELSE SubSeq(text, i + 1, hi)

\* text[i:]
SliceFrom(text, i) == Slice(text, i, Len(text))

\* every index at which sub occurs in text
Occurrences(text, sub) ==
    { i \in 0..(Len(text) - Len(sub)) : Slice(text, i, i + Len(sub)) = sub }

\* text.find(sub, start): the lowest index >= start at which sub occurs, or
\* -1; a negative start counts from the end of text
Find(text, sub, start) ==
    LET s    == IF start < 0 THEN Max({Len(text) + start, 0}) ELSE start
        hits == { i \in Occurrences(text, sub) : i >= s }
    IN  IF hits = {} THEN -1 ELSE Min(hits)

\* sub in text
Contains(text, sub) == Occurrences(text, sub) # {}

NL == <<"\n">>

\* the sequences over S of length at most n
SeqsUpTo(S, n) == UNION { [1..k -> S] : k \in 0..n }

----------------------------------------------------------------------------
(* replace_between_markers *)

\* what a call gives: the text returned, or the ValueError raised
Returned(text) == [raised |-> FALSE, text |-> text]

ValueError == [raised |-> TRUE, text |-> << >>]

\* a slip that consumes the end marker: text[end + len(end_marker):]
replace_dropping_end_marker(text, begin_marker, end_marker, new_content) ==
    LET start == Find(text, begin_marker, 0)
        end   == Find(text, end_marker, start)
    IN  IF start = -1 \/ end = -1
        THEN ValueError
        ELSE Returned(Slice(text, 0, start + Len(begin_marker)) \o NL
                      \o new_content \o NL
                      \o SliceFrom(text, end + Len(end_marker)))

\* a slip that joins the pieces with no newline around the new content
replace_without_newlines(text, begin_marker, end_marker, new_content) ==
    LET start == Find(text, begin_marker, 0)
        end   == Find(text, end_marker, start)
    IN  IF start = -1 \/ end = -1
        THEN ValueError
        ELSE Returned(Slice(text, 0, start + Len(begin_marker))
                      \o new_content \o SliceFrom(text, end))

\* a slip that keeps text[:len(begin_marker)], not
\* text[:start + len(begin_marker)]
replace_without_start_offset(text, begin_marker, end_marker, new_content) ==
    LET start == Find(text, begin_marker, 0)
        end   == Find(text, end_marker, start)
    IN  IF start = -1 \/ end = -1
        THEN ValueError
        ELSE Returned(Slice(text, 0, Len(begin_marker)) \o NL
                      \o new_content \o NL \o SliceFrom(text, end))

replace_between_markers(text, begin_marker, end_marker, new_content) ==
    LET start == Find(text, begin_marker, 0)
        end   == Find(text, end_marker, start)
    IN  IF start = -1 \/ end = -1
        THEN ValueError
        ELSE Returned(Slice(text, 0, start + Len(begin_marker)) \o NL
                      \o new_content \o NL \o SliceFrom(text, end))


----------------------------------------------------------------------------
(* More str methods *)

RECURSIVE Replace(_, _, _)
\* s.replace(old, new), the next occurrence of old being at index i
ReplaceAt(s, old, new, i) ==
    IF i = -1
    THEN s
    ELSE Slice(s, 0, i) \o new
         \o Replace(SliceFrom(s, i + Len(old)), old, new)

\* s.replace(old, new), old not empty: every non-overlapping occurrence,
\* left to right
Replace(s, old, new) == ReplaceAt(s, old, new, Find(s, old, 0))

RECURSIVE Split(_, _)
\* s.split(sep), the next occurrence of sep being at index i
SplitAt(s, sep, i) ==
    IF i = -1
    THEN <<s>>
    ELSE <<Slice(s, 0, i)>> \o Split(SliceFrom(s, i + Len(sep)), sep)

\* s.split(sep)
Split(s, sep) == SplitAt(s, sep, Find(s, sep, 0))

\* s.strip(chars): every leading and every trailing character of the set
StripChars(s, chars) ==
    LET keep == { k \in 1..Len(s) : s[k] \notin chars }
    IN  IF keep = {} THEN << >> ELSE SubSeq(s, Min(keep), Max(keep))

\* the characters s.strip() removes
Whitespace == {" ", "\t", "\n", "\r", "\f", "U+000B"}

RECURSIVE Join(_, _)
\* sep.join(parts)
Join(sep, parts) ==
    IF parts = << >> THEN << >>
    ELSE IF Len(parts) = 1 THEN parts[1]
    ELSE parts[1] \o sep \o Join(sep, Tail(parts))

UpperToLower ==
    "A" :> "a" @@ "B" :> "b" @@ "C" :> "c" @@ "D" :> "d" @@ "E" :> "e" @@
    "F" :> "f" @@ "G" :> "g" @@ "H" :> "h" @@ "I" :> "i" @@ "J" :> "j" @@
    "K" :> "k" @@ "L" :> "l" @@ "M" :> "m" @@ "N" :> "n" @@ "O" :> "o" @@
    "P" :> "p" @@ "Q" :> "q" @@ "R" :> "r" @@ "S" :> "s" @@ "T" :> "t" @@
    "U" :> "u" @@ "V" :> "v" @@ "W" :> "w" @@ "X" :> "x" @@ "Y" :> "y" @@
    "Z" :> "z"

\* s.lower()
Lower(s) ==
    [k \in 1..Len(s) |->
        IF s[k] \in DOMAIN UpperToLower THEN UpperToLower[s[k]] ELSE s[k]]

\* the printable ASCII characters in code point order, from U+0020
Printable ==
    <<" ", "!", "\"", "#", "$", "%", "&", "'", "(", ")", "*", "+", ",", "-",
      ".", "/", "0", "1", "2", "3", "4", "5", "6", "7", "8", "9", ":", ";",
      "<", "=", ">", "?", "@", "A", "B", "C", "D", "E", "F", "G", "H", "I",
      "J", "K", "L", "M", "N", "O", "P", "Q", "R", "S", "T", "U", "V", "W",
      "X", "Y", "Z", "[", "\\", "]", "^", "_", "U+0060", "a", "b", "c", "d",
      "e", "f", "g", "h", "i", "j", "k", "l", "m", "n", "o", "p", "q", "r",
      "s", "t", "u", "v", "w", "x", "y", "z", "{", "|", "}", "~">>

\* ord(c)
Ord(c) == 31 + CHOOSE k \in 1..Len(Printable) : Printable[k] = c

RECURSIVE StrLess(_, _)
\* a < b on str: by code point, a proper prefix first
StrLess(a, b) ==
    IF b = << >> THEN FALSE
    ELSE IF a = << >> THEN TRUE
    ELSE IF Head(a) = Head(b) THEN StrLess(Tail(a), Tail(b))
    ELSE Ord(Head(a)) < Ord(Head(b))

\* entry.get(field, default)
Get(entry, field, default) ==
    IF field \in DOMAIN entry THEN entry[field] ELSE default

EMPTY == << >>

----------------------------------------------------------------------------
(* latex_to_unicode *)

\* the table of latex_to_unicode, in its order: <<latex, uni>>
replacements ==
    <<
      <<<<"{", "\\", "'", "a", "}">>, <<"U+00E1">>>>,
      <<<<"{", "\\", "'", "e", "}">>, <<"U+00E9">>>>,
      <<<<"{", "\\", "'", "i", "}">>, <<"U+00ED">>>>,
      <<<<"{", "\\", "'", "o", "}">>, <<"U+00F3">>>>,
      <<<<"{", "\\", "'", "u", "}">>, <<"U+00FA">>>>,
      <<<<"{", "\\", "U+0060", "a", "}">>, <<"U+00E0">>>>,
      <<<<"{", "\\", "U+0060", "e", "}">>, <<"U+00E8">>>>,
      <<<<"{", "\\", "U+0060", "i", "}">>, <<"U+00EC">>>>,
      <<<<"{", "\\", "U+0060", "o", "}">>, <<"U+00F2">>>>,
      <<<<"{", "\\", "U+0060", "u", "}">>, <<"U+00F9">>>>,
      <<<<"{", "\\", "^", "a", "}">>, <<"U+00E2">>>>,
      <<<<"{", "\\", "^", "e", "}">>, <<"U+00EA">>>>,
      <<<<"{", "\\", "^", "i", "}">>, <<"U+00EE">>>>,
      <<<<"{", "\\", "^", "o", "}">>, <<"U+00F4">>>>,
      <<<<"{", "\\", "^", "u", "}">>, <<"U+00FB">>>>,
      <<<<"{", "\\", "\"", "a", "}">>, <<"U+00E4">>>>,
      <<<<"{", "\\", "\"", "e", "}">>, <<"U+00EB">>>>,
      <<<<"{", "\\", "\"", "i", "}">>, <<"U+00EF">>>>,
      <<<<"{", "\\", "\"", "o", "}">>, <<"U+00F6">>>>,
      <<<<"{", "\\", "\"", "u", "}">>, <<"U+00FC">>>>,
      <<<<"{", "\\", "~", "n", "}">>, <<"U+00F1">>>>,
      <<<<"{", "\\", "c", "{", "c", "}", "}">>, <<"U+00E7">>>>,
      <<<<"\\", "\\", "&">>, <<"&">>>>
    >>

RECURSIVE ApplyReplacements(_, _)
\* for latex, uni in replacements.items(): s = s.replace(latex, uni), from
\* entry k of the table on (no entry changes the empty str)
ApplyReplacements(s, k) ==
    IF s = << >> \/ k > Len(replacements) THEN s
    ELSE ApplyReplacements(Replace(s, replacements[k][1], replacements[k][2]),
                           k + 1)

\* re.sub(r"[{}]", "", s)
RemoveBraces(s) == SelectSeq(s, LAMBDA c : c \notin {"{", "}"})

latex_to_unicode(s) == RemoveBraces(ApplyReplacements(s, 1))

----------------------------------------------------------------------------
(* format_authors *)

\* 'Boukraa'
author_to_bold == <<"B", "o", "u", "k", "r", "a", "a">>

\* ' and '
AND_SEP == <<" ", "a", "n", "d", " ">>

\* ', '
COMMA_SP == <<",", " ">>

\* ' '
SPACE == <<" ">>

\* '<strong>'
STRONG_OPEN == <<"<", "s", "t", "r", "o", "n", "g", ">">>

\* '</strong>'
STRONG_CLOSE == <<"<", "/", "s", "t", "r", "o", "n", "g", ">">>

\* '\\textbf{'
TEXTBF_OPEN == <<"\\", "t", "e", "x", "t", "b", "f", "{">>

\* '}'
CLOSE_BRACE == <<"}">>

\* [a.strip() for a in parts]
strip_each(parts) ==
    [k \in 1..Len(parts) |-> StripChars(parts[k], Whitespace)]

\* authors = [a.strip() for a in authors_raw.replace("\n", " ").split(" and ")]
split_authors(authors_raw) ==
    strip_each(Split(Replace(authors_raw, NL, SPACE), AND_SEP))

\* what the loop appends to out for author a
emphasised(a, html) ==
    IF Contains(a, author_to_bold)
    THEN IF html
         THEN STRONG_OPEN \o a \o STRONG_CLOSE
         ELSE TEXTBF_OPEN \o a \o CLOSE_BRACE
    ELSE a

\* out, after "for a in authors"
emphasise_each(authors, html) ==
    [k \in 1..Len(authors) |-> emphasised(authors[k], html)]

\* latex_to_unicode(s) if html else s
unicode_if(html, s) == IF html THEN latex_to_unicode(s) ELSE s

format_authors(authors_raw, html) ==
    unicode_if(html,
               Join(COMMA_SP,
                    emphasise_each(split_authors(authors_raw), html)))

----------------------------------------------------------------------------
(* format_publication *)

\* 'article'
ARTICLE == <<"a", "r", "t", "i", "c", "l", "e">>

\* 'inproceedings'
INPROCEEDINGS ==
    <<"i", "n", "p", "r", "o", "c", "e", "e", "d", "i", "n", "g", "s">>

\* 'journal'
JOURNAL == <<"j", "o", "u", "r", "n", "a", "l">>

\* 'conference'
CONFERENCE == <<"c", "o", "n", "f", "e", "r", "e", "n", "c", "e">>

\* '. '
DOT_SP == <<".", " ">>

\* '('
OPEN_PAREN == <<"(">>

\* ')'
CLOSE_PAREN == <<")">>

\* '. <em>'
EM_OPEN == <<".", " ", "<", "e", "m", ">">>

\* '</em>.'
EM_CLOSE == <<"<", "/", "e", "m", ">", ".">>

\* ' <a href="https://doi.org/'
A_DOI_OPEN ==
    <<" ", "<", "a", " ", "h", "r", "e", "f", "=", "\"", "h", "t", "t", "p",
      "s", ":", "/", "/", "d", "o", "i", ".", "o", "r", "g", "/">>

\* '">DOI</a>'
A_DOI_CLOSE == <<"\"", ">", "D", "O", "I", "<", "/", "a", ">">>

\* ' <a href="'
A_OPEN == <<" ", "<", "a", " ", "h", "r", "e", "f", "=", "\"">>

\* '">HAL</a>'
A_HAL_CLOSE == <<"\"", ">", "H", "A", "L", "<", "/", "a", ">">>

\* '\\item '
ITEM == <<"\\", "i", "t", "e", "m", " ">>

\* '. \\textit{'
TEXTIT_OPEN == <<".", " ", "\\", "t", "e", "x", "t", "i", "t", "{">>

\* '}.'
TEXTIT_CLOSE == <<"}", ".">>

\* ': \\href{https://doi.org/'
HREF_DOI_OPEN ==
    <<":", " ", "\\", "h", "r", "e", "f", "{", "h", "t", "t", "p", "s", ":",
      "/", "/", "d", "o", "i", ".", "o", "r", "g", "/">>

\* ': \\href{'
HREF_OPEN == <<":", " ", "\\", "h", "r", "e", "f", "{">>

\* '}{'
HREF_MID == <<"}", "{">>

\* '}{\\nolinkurl{'
HREF_NOLINK_MID ==
    <<"}", "{", "\\", "n", "o", "l", "i", "n", "k", "u", "r", "l", "{">>

\* '}}'
HREF_NOLINK_CLOSE == <<"}", "}">>

\* Python's None, equal to no str
None == <<"None">>

\* title = entry.get("title", "").strip("{}"); latex_to_unicode if html
publication_title(entry, html) ==
    unicode_if(html, StripChars(Get(entry, "title", EMPTY), {"{", "}"}))

\* hal = entry.get("hal_id", "") or entry.get("url", "")
publication_hal(entry) ==
    IF Get(entry, "hal_id", EMPTY) # EMPTY
    THEN Get(entry, "hal_id", EMPTY)
    ELSE Get(entry, "url", EMPTY)

\* the details of an article: journal[, volume][(number)][, pages][, year]
article_details(entry) ==
    LET vol   == Get(entry, "volume", EMPTY)
        num   == Get(entry, "number", EMPTY)
        pages == Get(entry, "pages", EMPTY)
        year  == Get(entry, "year", EMPTY)
    IN  Get(entry, "journal", EMPTY)
        \o (IF vol # EMPTY THEN COMMA_SP \o vol ELSE EMPTY)
        \o (IF num # EMPTY THEN OPEN_PAREN \o num \o CLOSE_PAREN ELSE EMPTY)
        \o (IF pages # EMPTY THEN COMMA_SP \o pages ELSE EMPTY)
        \o (IF year # EMPTY THEN COMMA_SP \o year ELSE EMPTY)

\* the details of an inproceedings: booktitle[, address][, year]
inproceedings_details(entry) ==
    LET addr == Get(entry, "address", EMPTY)
        year == Get(entry, "year", EMPTY)
    IN  Get(entry, "booktitle", EMPTY)
        \o (IF addr # EMPTY THEN COMMA_SP \o addr ELSE EMPTY)
        \o (IF year # EMPTY THEN COMMA_SP \o year ELSE EMPTY)

\* the web line of an article or an inproceedings
publication_html_line(authors, title, details, doi, hal) ==
    authors \o DOT_SP \o title \o EM_OPEN \o latex_to_unicode(details)
    \o EM_CLOSE
    \o (IF doi # EMPTY THEN A_DOI_OPEN \o doi \o A_DOI_CLOSE ELSE EMPTY)
    \o (IF hal # EMPTY THEN A_OPEN \o hal \o A_HAL_CLOSE ELSE EMPTY)

\* the structured-markup line of an article
article_tex_line(authors, title, details, doi) ==
    ITEM \o authors \o DOT_SP \o title \o TEXTIT_OPEN \o details
    \o TEXTIT_CLOSE
    \o (IF doi # EMPTY
        THEN HREF_DOI_OPEN \o doi \o HREF_MID \o doi \o CLOSE_BRACE
        ELSE EMPTY)

\* the structured-markup line of an inproceedings
inproceedings_tex_line(authors, title, details, doi, hal) ==
    ITEM \o authors \o DOT_SP \o title \o TEXTIT_OPEN \o details
    \o TEXTIT_CLOSE
    \o (IF doi # EMPTY
        THEN HREF_DOI_OPEN \o doi \o HREF_NOLINK_MID \o doi
             \o HREF_NOLINK_CLOSE
        ELSE HREF_OPEN \o hal \o HREF_NOLINK_MID \o hal
             \o HREF_NOLINK_CLOSE)

\* the branches of format_publication on etype
publication_of_type(etype, authors, title, doi, hal, entry, html) ==
    IF etype = ARTICLE
    THEN <<JOURNAL,
           IF html
           THEN publication_html_line(authors, title,
                                      article_details(entry), doi, hal)
           ELSE article_tex_line(authors, title, article_details(entry),
                                 doi)>>
    ELSE IF etype = INPROCEEDINGS
    THEN <<CONFERENCE,
           IF html
           THEN publication_html_line(authors, title,
                                      inproceedings_details(entry), doi, hal)
           ELSE inproceedings_tex_line(authors, title,
                                       inproceedings_details(entry), doi,
                                       hal)>>
    ELSE <<None, None>>

\* format_publication(entry, html): <<category, line>>
format_publication(entry, html) ==
    publication_of_type(Lower(entry["ENTRYTYPE"]),
                        format_authors(Get(entry, "author", EMPTY), html),
                        publication_title(entry, html),
                        Get(entry, "doi", EMPTY),
                        publication_hal(entry),
                        entry, html)

----------------------------------------------------------------------------
(* format_talk *)

\* 'other'
OTHER_TYPE == <<"o", "t", "h", "e", "r">>

\* '.'
DOT == <<".">>

\* '" style="text-decoration:none">↗️</a>'
A_TALK_CLOSE ==
    <<"\"", " ", "s", "t", "y", "l", "e", "=", "\"", "t", "e", "x", "t", "-",
      "d", "e", "c", "o", "r", "a", "t", "i", "o", "n", ":", "n", "o", "n",
      "e", "\"", ">", "U+2197", "U+FE0F", "<", "/", "a", ">">>

\* ' \\url{'
URL_OPEN == <<" ", "\\", "u", "r", "l", "{">>

\* address[, note year | , note | , year]
talk_details(entry) ==
    LET address == Get(entry, "address", EMPTY)
        year    == Get(entry, "year", EMPTY)
        note    == Get(entry, "note", EMPTY)
    IN  IF note # EMPTY
        THEN IF year # EMPTY
             THEN address \o COMMA_SP \o note \o SPACE \o year
             ELSE address \o COMMA_SP \o note
        ELSE IF year # EMPTY
        THEN address \o COMMA_SP \o year
        ELSE address

\* the line of a talk
talk_line(title, details, url, html) ==
    IF html
    THEN IF url # EMPTY
         THEN title \o COMMA_SP \o details \o DOT \o A_OPEN \o url
              \o A_TALK_CLOSE
         ELSE title \o COMMA_SP \o details \o DOT
    ELSE ITEM \o title \o COMMA_SP \o details \o DOT
         \o (IF url # EMPTY THEN URL_OPEN \o url \o CLOSE_BRACE ELSE EMPTY)

\* format_talk(entry, html): <<category, line>>
format_talk(entry, html) ==
    <<Get(entry, "type", OTHER_TYPE),
      talk_line(Get(entry, "title", EMPTY), talk_details(entry),
                Get(entry, "url", EMPTY), html)>>

----------------------------------------------------------------------------
(* The script: sorting and bucketing *)

\* '0'
ZERO == <<"0">>

\* '<li>'
LI_OPEN == <<"<", "l", "i", ">">>

\* '</li>'
LI_CLOSE == <<"<", "/", "l", "i", ">">>

\* key=lambda e: e.get("year", "0")
sort_key(e) == Get(e, "year", ZERO)

\* where entry e goes in a list already sorted by descending key: after
\* every element whose key is not below its own (the sort is stable)
InsertByYear(sorted, e) ==
    LET n == Cardinality({ k \in 1..Len(sorted) :
                             ~StrLess(sort_key(sorted[k]), sort_key(e)) })
    IN  SubSeq(sorted, 1, n) \o <<e>> \o SubSeq(sorted, n + 1, Len(sorted))

RECURSIVE SortFrom(_, _)
SortFrom(sorted, rest) ==
    IF rest = << >> THEN sorted
    ELSE SortFrom(InsertByYear(sorted, Head(rest)), Tail(rest))

\* entries.sort(key=lambda e: e.get("year", "0"), reverse=True)
SortByYear(entries) == SortFrom(<< >>, entries)

EmptyBuckets ==
    [journal_tex_entries |-> << >>, conf_tex_entries |-> << >>,
     journal_html_entries |-> << >>, conf_html_entries |-> << >>,
     conf_talks_tex |-> << >>, other_talks_tex |-> << >>,
     conf_talks_html |-> << >>, other_talks_html |-> << >>]

\* the appends of one turn of "for entry in bib.entries", tex and web
\* being what format_publication gave with html=False and html=True
append_publication(b, tex, web) ==
    [b EXCEPT
       !.journal_tex_entries =
           IF tex[1] = JOURNAL THEN Append(@, tex[2]) ELSE @,
       !.conf_tex_entries =
           IF tex[1] = CONFERENCE THEN Append(@, tex[2]) ELSE @,
       !.journal_html_entries =
           IF web[1] = JOURNAL
           THEN Append(@, LI_OPEN \o web[2] \o LI_CLOSE) ELSE @,
       !.conf_html_entries =
           IF web[1] = CONFERENCE
           THEN Append(@, LI_OPEN \o web[2] \o LI_CLOSE) ELSE @]

\* the body of "for entry in bib.entries"
bucket_publication(b, entry) ==
    append_publication(b, format_publication(entry, FALSE),
                       format_publication(entry, TRUE))

\* "elif cat == "other"" for the else: a talk of any other type is dropped
append_talk_other_only(b, tex, web) ==
    [b EXCEPT
       !.conf_talks_tex =
           IF tex[1] = CONFERENCE THEN Append(@, tex[2]) ELSE @,
       !.other_talks_tex =
           IF tex[1] = OTHER_TYPE THEN Append(@, tex[2]) ELSE @,
       !.conf_talks_html =
           IF web[1] = CONFERENCE
           THEN Append(@, LI_OPEN \o web[2] \o LI_CLOSE) ELSE @,
       !.other_talks_html =
           IF web[1] = OTHER_TYPE
           THEN Append(@, LI_OPEN \o web[2] \o LI_CLOSE) ELSE @]

\* the appends of one turn of "for entry in talks.entries", tex and web
\* being what format_talk gave with html=False and html=True
append_talk(b, tex, web) ==
    [b EXCEPT
       !.conf_talks_tex =
           IF tex[1] = CONFERENCE THEN Append(@, tex[2]) ELSE @,
       !.other_talks_tex =
           IF tex[1] # CONFERENCE THEN Append(@, tex[2]) ELSE @,
       !.conf_talks_html =
           IF web[1] = CONFERENCE
           THEN Append(@, LI_OPEN \o web[2] \o LI_CLOSE) ELSE @,
       !.other_talks_html =
           IF web[1] # CONFERENCE
           THEN Append(@, LI_OPEN \o web[2] \o LI_CLOSE) ELSE @]

\* the body of "for entry in talks.entries"
bucket_talk(b, entry) ==
    append_talk(b, format_talk(entry, FALSE), format_talk(entry, TRUE))

----------------------------------------------------------------------------
(* The script: the marker pairs and the content of each region *)

\* '\\begin{enumerate}\n'
BEGIN_ENUMERATE ==
    <<"\\", "b", "e", "g", "i", "n", "{", "e", "n", "u", "m", "e", "r", "a",
      "t", "e", "}", "\n">>

\* '\n\\end{enumerate}'
END_ENUMERATE ==
    <<"\n", "\\", "e", "n", "d", "{", "e", "n", "u", "m", "e", "r", "a", "t",
      "e", "}">>

\* '\\begin{itemize}\n'
BEGIN_ITEMIZE ==
    <<"\\", "b", "e", "g", "i", "n", "{", "i", "t", "e", "m", "i", "z", "e",
      "}", "\n">>

\* '\n\\end{itemize}'
END_ITEMIZE ==
    <<"\n", "\\", "e", "n", "d", "{", "i", "t", "e", "m", "i", "z", "e", "}">>

\* '% BEGIN JOURNALS'
TEX_BEGIN_JOURNALS ==
    <<"%", " ", "B", "E", "G", "I", "N", " ", "J", "O", "U", "R", "N", "A",
      "L", "S">>

\* '% END JOURNALS'
TEX_END_JOURNALS ==
    <<"%", " ", "E", "N", "D", " ", "J", "O", "U", "R", "N", "A", "L", "S">>

\* '% BEGIN CONFS'
TEX_BEGIN_CONFS ==
    <<"%", " ", "B", "E", "G", "I", "N", " ", "C", "O", "N", "F", "S">>

\* '% END CONFS'
TEX_END_CONFS == <<"%", " ", "E", "N", "D", " ", "C", "O", "N", "F", "S">>

\* '% BEGIN CONF TALKS'
TEX_BEGIN_CONF_TALKS ==
    <<"%", " ", "B", "E", "G", "I", "N", " ", "C", "O", "N", "F", " ", "T",
      "A", "L", "K", "S">>

\* '% END CONF TALKS'
TEX_END_CONF_TALKS ==
    <<"%", " ", "E", "N", "D", " ", "C", "O", "N", "F", " ", "T", "A", "L",
      "K", "S">>

\* '% BEGIN OTHER_TYPE TALKS'
TEX_BEGIN_OTHER_TALKS ==
    <<"%", " ", "B", "E", "G", "I", "N", " ", "O", "T", "H", "E", "R", "_",
      "T", "Y", "P", "E", " ", "T", "A", "L", "K", "S">>

\* '% END OTHER_TYPE TALKS'
TEX_END_OTHER_TALKS ==
    <<"%", " ", "E", "N", "D", " ", "O", "T", "H", "E", "R", "_", "T", "Y",
      "P", "E", " ", "T", "A", "L", "K", "S">>

\* '<!-- BEGIN JOURNALS -->'
HTML_BEGIN_JOURNALS ==
    <<"<", "!", "-", "-", " ", "B", "E", "G", "I", "N", " ", "J", "O", "U",
      "R", "N", "A", "L", "S", " ", "-", "-", ">">>

\* '<!-- END JOURNALS -->'
HTML_END_JOURNALS ==
    <<"<", "!", "-", "-", " ", "E", "N", "D", " ", "J", "O", "U", "R", "N",
      "A", "L", "S", " ", "-", "-", ">">>

\* '<!-- BEGIN CONFS -->'
HTML_BEGIN_CONFS ==
    <<"<", "!", "-", "-", " ", "B", "E", "G", "I", "N", " ", "C", "O", "N",
      "F", "S", " ", "-", "-", ">">>

\* '<!-- END CONFS -->'
HTML_END_CONFS ==
    <<"<", "!", "-", "-", " ", "E", "N", "D", " ", "C", "O", "N", "F", "S",
      " ", "-", "-", ">">>

\* '<!-- BEGIN CONF TALKS -->'
HTML_BEGIN_CONF_TALKS ==
    <<"<", "!", "-", "-", " ", "B", "E", "G", "I", "N", " ", "C", "O", "N",
      "F", " ", "T", "A", "L", "K", "S", " ", "-", "-", ">">>

\* '<!-- END CONF TALKS -->'
HTML_END_CONF_TALKS ==
    <<"<", "!", "-", "-", " ", "E", "N", "D", " ", "C", "O", "N", "F", " ",
      "T", "A", "L", "K", "S", " ", "-", "-", ">">>

\* '<!-- BEGIN OTHER_TYPE TALKS -->'
HTML_BEGIN_OTHER_TALKS ==
    <<"<", "!", "-", "-", " ", "B", "E", "G", "I", "N", " ", "O", "T", "H",
      "E", "R", "_", "T", "Y", "P", "E", " ", "T", "A", "L", "K", "S", " ",
      "-", "-", ">">>

\* '<!-- END OTHER_TYPE TALKS -->'
HTML_END_OTHER_TALKS ==
    <<"<", "!", "-", "-", " ", "E", "N", "D", " ", "O", "T", "H", "E", "R",
      "_", "T", "Y", "P", "E", " ", "T", "A", "L", "K", "S", " ", "-", "-",
      ">">>

\* the regions, in the order the script splices them
Regions == 1..4

\* the <<begin_marker, end_marker>> of the four calls on a .tex file
tex_markers ==
    << <<TEX_BEGIN_JOURNALS, TEX_END_JOURNALS>>,
       <<TEX_BEGIN_CONFS, TEX_END_CONFS>>,
       <<TEX_BEGIN_CONF_TALKS, TEX_END_CONF_TALKS>>,
       <<TEX_BEGIN_OTHER_TALKS, TEX_END_OTHER_TALKS>> >>

\* the <<begin_marker, end_marker>> of the four calls on index.html
html_markers ==
    << <<HTML_BEGIN_JOURNALS, HTML_END_JOURNALS>>,
       <<HTML_BEGIN_CONFS, HTML_END_CONFS>>,
       <<HTML_BEGIN_CONF_TALKS, HTML_END_CONF_TALKS>>,
       <<HTML_BEGIN_OTHER_TALKS, HTML_END_OTHER_TALKS>> >>

\* the new_content of the four calls on a .tex file
tex_content(b) ==
    << BEGIN_ENUMERATE \o Join(NL, b.journal_tex_entries) \o END_ENUMERATE,
       BEGIN_ENUMERATE \o Join(NL, b.conf_tex_entries) \o END_ENUMERATE,
       BEGIN_ITEMIZE \o Join(NL, b.conf_talks_tex) \o END_ITEMIZE,
       BEGIN_ITEMIZE \o Join(NL, b.other_talks_tex) \o END_ITEMIZE >>

\* the new_content of the four calls on index.html
html_content(b) ==
    << Join(NL, b.journal_html_entries),
       Join(NL, b.conf_html_entries),
       Join(NL, b.conf_talks_html),
       Join(NL, b.other_talks_html) >>

\* [cvfile, Path("CV-Full.tex")]
TexFiles == <<"CV.tex", "CV-Full.tex">>

htmlfile == "index.html"

Documents == {"CV.tex", "CV-Full.tex", "index.html"}

\* a try/except around each splice, as around the compilation: a failed
\* splice is skipped and the document is written all the same
after_splice_swallowing(text, r, k) ==
    [next   |-> IF k = 4 THEN "write" ELSE "splice",
     text   |-> IF r.raised THEN text ELSE r.text,
     region |-> IF k = 4 THEN k ELSE k + 1]

\* what follows call k on a document, r being what the call gave: the
\* ValueError is not caught and ends the script; the text returned is
\* spliced further, and written after the fourth call
after_splice(text, r, k) ==
    IF r.raised
    THEN [next |-> "raise", text |-> text, region |-> k]
    ELSE [next   |-> IF k = 4 THEN "write" ELSE "splice",
          text   |-> r.text,
          region |-> IF k = 4 THEN k ELSE k + 1]

----------------------------------------------------------------------------
(* The inputs of a run: the records of the two .bib files and the three    *)
(* documents                                                               *)

MaxPubs == 2

MaxTalks == 2

\* an article of 2020, its title in one brace group
PubArticle2020 ==
    "ENTRYTYPE" :> <<"a", "r", "t", "i", "c", "l", "e">> @@
    "author" :>
        <<"A", ".", " ", "O", "n", "e", " ", "a", "n", "d", " ", "M", ".",
          " ", "A", ".", " ", "B", "o", "u", "k", "r", "a", "a">> @@
    "title" :> <<"{", "S", "t", "u", "d", "y", "}">> @@
    "journal" :> <<"J">> @@
    "volume" :> <<"3">> @@
    "number" :> <<"2">> @@
    "pages" :> <<"1", "-", "-", "9">> @@
    "year" :> <<"2", "0", "2", "0">> @@
    "doi" :> <<"1", "0", ".", "1", "/", "x">>

\* an inproceedings of 2021, a brace group at each end of its title
PubInproceedings2021 ==
    "ENTRYTYPE" :>
        <<"i", "n", "p", "r", "o", "c", "e", "e", "d", "i", "n", "g", "s">> @@
    "author" :>
        <<"R", "e", "n", "{", "\\", "'", "e", "}", " ", "T", "w", "o", " ",
          "a", "n", "d", "\n", "M", ".", " ", "B", "o", "u", "k", "r", "a",
          "a">> @@
    "title" :>
        <<"{", "A", "}", " ", "s", "t", "u", "d", "y", " ", "o", "f", " ",
          "{", "B", "}">> @@
    "booktitle" :>
        <<"P", "r", "o", "c", ".", " ", "X", " ", "\\", "\\", "&", " ", "Y">> @@
    "address" :> <<"P", "a", "r", "i", "s">> @@
    "year" :> <<"2", "0", "2", "1">> @@
    "url" :>
        <<"h", "t", "t", "p", "s", ":", "/", "/", "h", "a", "l", ".", "s",
          "c", "i", "e", "n", "c", "e", "/", "h", "1">>

\* an article whose year is not a number
PubArticleInPress ==
    "ENTRYTYPE" :> <<"a", "r", "t", "i", "c", "l", "e">> @@
    "author" :> <<"M", ".", " ", "B", "o", "u", "k", "r", "a", "a">> @@
    "title" :> <<"N", "e", "x", "t">> @@
    "journal" :> <<"K">> @@
    "year" :> <<"i", "n", " ", "p", "r", "e", "s", "s">> @@
    "hal_id" :> <<"h", "2">>

\* an article with no year
PubArticleNoYear ==
    "ENTRYTYPE" :> <<"a", "r", "t", "i", "c", "l", "e">> @@
    "author" :> <<"B", ".", " ", "T", "w", "o">> @@
    "title" :> <<"{", "{", "O", "l", "d", "}", "}">> @@
    "journal" :> <<"L">>

\* a record of a kind the formatter does not know
PubBook ==
    "ENTRYTYPE" :> <<"b", "o", "o", "k">> @@
    "author" :> <<"M", ".", " ", "B", "o", "u", "k", "r", "a", "a">> @@
    "title" :> <<"B", "o", "o", "k">> @@
    "year" :> <<"2", "0", "2", "2">>

PubRecords ==
    {PubArticle2020, PubInproceedings2021, PubArticleInPress,
     PubArticleNoYear, PubBook}

\* a conference talk
TalkKeynote ==
    "ENTRYTYPE" :> <<"m", "i", "s", "c">> @@
    "title" :> <<"T", "a", "l", "k", " ", "A">> @@
    "address" :> <<"P", "a", "r", "i", "s">> @@
    "note" :> <<"k", "e", "y", "n", "o", "t", "e">> @@
    "year" :> <<"2", "0", "2", "2">> @@
    "type" :> <<"c", "o", "n", "f", "e", "r", "e", "n", "c", "e">>

\* a talk of another type, an accent in its title
TalkSeminar ==
    "ENTRYTYPE" :> <<"m", "i", "s", "c">> @@
    "title" :>
        <<"C", "a", "f", "{", "\\", "'", "e", "}", " ", "s", "e", "m", "i",
          "n", "a", "r">> @@
    "address" :> <<"L", "y", "o", "n">> @@
    "year" :> <<"2", "0", "2", "1">> @@
    "type" :> <<"s", "e", "m", "i", "n", "a", "r">> @@
    "url" :>
        <<"h", "t", "t", "p", "s", ":", "/", "/", "x", ".", "o", "r", "g",
          "/", "t">>

\* a talk with no type and no year
TalkUntyped ==
    "ENTRYTYPE" :> <<"m", "i", "s", "c">> @@
    "title" :> <<"T", "a", "l", "k", " ", "C">> @@
    "address" :> <<"T", "u", "n", "i", "s">> @@
    "note" :> <<"J", "u", "n", "e">>

\* a later conference talk
TalkConference2023 ==
    "ENTRYTYPE" :> <<"m", "i", "s", "c">> @@
    "title" :> <<"T", "a", "l", "k", " ", "D">> @@
    "address" :> <<"R", "o", "m", "e">> @@
    "year" :> <<"2", "0", "2", "3">> @@
    "type" :> <<"c", "o", "n", "f", "e", "r", "e", "n", "c", "e">>

TalkRecords == {TalkKeynote, TalkSeminar, TalkUntyped, TalkConference2023}

\* 'Intro\n'
Preamble == <<"I", "n", "t", "r", "o", "\n">>

\* 'old'
OldContent == <<"o", "l", "d">>

\* 'End\n'
Postamble == <<"E", "n", "d", "\n">>

RECURSIVE DocumentFrom(_, _, _)
\* the regions of `order`, one after the other: begin marker, the old
\* content, end marker, each on its line; a marker of `dropped` is left out
DocumentFrom(markers, order, dropped) ==
    IF order = << >> THEN Postamble
    ELSE LET r == Head(order)
         IN  (IF <<r, 1>> \in dropped THEN EMPTY ELSE markers[r][1] \o NL)
             \o OldContent \o NL
             \o (IF <<r, 2>> \in dropped THEN EMPTY ELSE markers[r][2] \o NL)
             \o DocumentFrom(markers, Tail(order), dropped)

Document(markers, order, dropped) ==
    Preamble \o DocumentFrom(markers, order, dropped)

\* a document may lack one marker: the end marker of the first or third
\* region, the begin marker of the second or fourth
DroppedMarkers == { {}, {<<1, 2>>}, {<<2, 1>>}, {<<3, 2>>}, {<<4, 1>>} }

OnDisk(text) == [exists |-> TRUE, text |-> text]

NoFile == [exists |-> FALSE, text |-> << >>]

TexFileChoices ==
    {NoFile} \cup { OnDisk(Document(tex_markers, <<1, 2, 3, 4>>, d)) :
                      d \in DroppedMarkers }

HtmlFileChoices ==
    {NoFile} \cup { OnDisk(Document(html_markers, <<1, 2, 3, 4>>, d)) :
                      d \in DroppedMarkers }

GoodFiles ==
    [d \in Documents |->
        OnDisk(Document(IF d = htmlfile THEN html_markers ELSE tex_markers,
                        <<1, 2, 3, 4>>, {}))]

\* the runs checked: any publications, any talks, or any documents, the
\* other inputs being fixed
Inputs ==
    { [pubs |-> p, talks |-> <<TalkKeynote>>, files |-> GoodFiles] :
        p \in SeqsUpTo(PubRecords, MaxPubs) }
    \cup
    { [pubs |-> <<PubArticle2020>>, talks |-> t, files |-> GoodFiles] :
        t \in SeqsUpTo(TalkRecords, MaxTalks) }
    \cup
    { [pubs |-> <<PubArticle2020, PubInproceedings2021>>,
       talks |-> <<TalkKeynote, TalkSeminar>>,
       files |-> [d \in Documents |->
                    IF d = "CV.tex" THEN a
                    ELSE IF d = "CV-Full.tex" THEN b ELSE c]] :
        a \in TexFileChoices, b \in TexFileChoices, c \in HtmlFileChoices }

----------------------------------------------------------------------------
(* The script, step by step *)

Init ==
    /\ \E inp \in Inputs :
         /\ bib_entries = inp.pubs
         /\ talks_entries = inp.talks
         /\ files = inp.files
    /\ pc = "sort_pubs"
    /\ buckets = EmptyBuckets
    /\ texfile = 1
    /\ entry_index = 1
    /\ region = 1
    /\ cv = << >>
    /\ html_text = << >>
    /\ printed = << >>
    /\ sp = "idle"
    /\ od = "idle"

\* bib.entries.sort(key=..., reverse=True)
SortPubs ==
    /\ pc = "sort_pubs"
    /\ bib_entries' = SortByYear(bib_entries)
    /\ entry_index' = 1
    /\ pc' = IF bib_entries = << >> THEN "sort_talks" ELSE "pubs_loop"
    /\ UNCHANGED <<talks_entries, buckets, files, texfile, region, cv,
                   html_text, printed, sp, od>>

\* one turn of "for entry in bib.entries"
FormatPub ==
    /\ pc = "pubs_loop"
    /\ buckets' = bucket_publication(buckets, bib_entries[entry_index])
    /\ IF entry_index = Len(bib_entries)
       THEN pc' = "sort_talks" /\ entry_index' = 1
       ELSE pc' = pc /\ entry_index' = entry_index + 1
    /\ UNCHANGED <<bib_entries, talks_entries, files, texfile, region, cv,
                   html_text, printed, sp, od>>

\* talks.entries.sort(key=..., reverse=True)
SortTalks ==
    /\ pc = "sort_talks"
    /\ talks_entries' = SortByYear(talks_entries)
    /\ entry_index' = 1
    /\ pc' = IF talks_entries = << >> THEN "tex_files" ELSE "talks_loop"
    /\ UNCHANGED <<bib_entries, buckets, files, texfile, region, cv, html_text,
                   printed, sp, od>>

\* one turn of "for entry in talks.entries"
FormatTalk ==
    /\ pc = "talks_loop"
    /\ buckets' = bucket_talk(buckets, talks_entries[entry_index])
    /\ IF entry_index = Len(talks_entries)
       THEN pc' = "tex_files" /\ entry_index' = 1
       ELSE pc' = pc /\ entry_index' = entry_index + 1
    /\ UNCHANGED <<bib_entries, talks_entries, files, texfile, region, cv,
                   html_text, printed, sp, od>>

\* the loop over the .tex files moves on
NextTexFile ==
    IF texfile = Len(TexFiles)
    THEN pc' = "html_read" /\ texfile' = texfile
    ELSE pc' = "tex_files" /\ texfile' = texfile + 1

\* if texfile.exists(): cv = texfile.read_text()
ReadTex ==
    /\ pc = "tex_files"
    /\ files[TexFiles[texfile]].exists
    /\ cv' = files[TexFiles[texfile]].text
    /\ region' = 1
    /\ pc' = "tex_splice"
    /\ UNCHANGED <<bib_entries, talks_entries, buckets, files, texfile,
                   entry_index, html_text, printed, sp, od>>

\* a .tex file that does not exist is passed over
SkipTex ==
    /\ pc = "tex_files"
    /\ ~files[TexFiles[texfile]].exists
    /\ NextTexFile
    /\ UNCHANGED <<bib_entries, talks_entries, buckets, files, entry_index,
                   region, cv, html_text, printed, sp, od>>

\* cv = replace_between_markers(cv, ...), one of the four calls
SpliceTex ==
    /\ pc = "tex_splice"
    /\ LET r == replace_between_markers(cv, tex_markers[region][1],
                    tex_markers[region][2], tex_content(buckets)[region])
           s == after_splice(cv, r, region)
       IN  /\ cv' = s.text
           /\ region' = s.region
           /\ pc' = IF s.next = "raise" THEN "aborted"
                    ELSE IF s.next = "write" THEN "tex_write"
                    ELSE "tex_splice"
    /\ UNCHANGED <<bib_entries, talks_entries, buckets, files, texfile,
                   entry_index, html_text, printed, sp, od>>

\* texfile.write_text(cv); print(f"Updated {texfile.name}")
WriteTex ==
    /\ pc = "tex_write"
    /\ files' = [files EXCEPT ![TexFiles[texfile]].text = cv]
    /\ printed' = Append(printed, TexFiles[texfile])
    /\ NextTexFile
    /\ UNCHANGED <<bib_entries, talks_entries, buckets, entry_index, region,
                   cv, html_text, sp, od>>

\* html = htmlfile.read_text(): FileNotFoundError ends the script
ReadHtml ==
    /\ pc = "html_read"
    /\ IF files[htmlfile].exists
       THEN /\ html_text' = files[htmlfile].text
            /\ region' = 1
            /\ pc' = "html_splice"
       ELSE /\ pc' = "aborted"
            /\ UNCHANGED <<html_text, region>>
    /\ UNCHANGED <<bib_entries, talks_entries, buckets, files, texfile,
                   entry_index, cv, printed, sp, od>>

\* html = replace_between_markers(html, ...), one of the four calls
SpliceHtml ==
    /\ pc = "html_splice"
    /\ LET r == replace_between_markers(html_text, html_markers[region][1],
                    html_markers[region][2], html_content(buckets)[region])
           s == after_splice(html_text, r, region)
       IN  /\ html_text' = s.text
           /\ region' = s.region
           /\ pc' = IF s.next = "raise" THEN "aborted"
                    ELSE IF s.next = "write" THEN "html_write"
                    ELSE "html_splice"
    /\ UNCHANGED <<bib_entries, talks_entries, buckets, files, texfile,
                   entry_index, cv, printed, sp, od>>

\* htmlfile.write_text(html); print("Updated index.html_text ...")
WriteHtml ==
    /\ pc = "html_write"
    /\ files' = [files EXCEPT ![htmlfile].text = html_text]
    /\ printed' = Append(printed, htmlfile)
    /\ pc' = "compile"
    /\ texfile' = 1
    /\ UNCHANGED <<bib_entries, talks_entries, buckets, entry_index, region,
                   cv, html_text, sp, od>>

\* xelatex twice on one .tex file; its failure is caught and printed, and
\* neither outcome touches the documents
Compile ==
    /\ pc = "compile"
    /\ IF texfile = Len(TexFiles)
       THEN pc' = "done" /\ texfile' = texfile
       ELSE pc' = pc /\ texfile' = texfile + 1
    /\ UNCHANGED <<bib_entries, talks_entries, buckets, files, entry_index,
                   region, cv, html_text, printed, sp, od>>

Next ==
    \/ SortPubs
    \/ FormatPub
    \/ SortTalks
    \/ FormatTalk
    \/ ReadTex
    \/ SkipTex
    \/ SpliceTex
    \/ WriteTex
    \/ ReadHtml
    \/ SpliceHtml
    \/ WriteHtml
    \/ Compile

Spec == Init /\ [][Next]_vars
----------------------------------------------------------------------------
(* The splicer on its own: any text, any marker pair, any content, then a  *)
(* second splice of the text the first one returned.                       *)

MaxTextLen == 4

SpliceTexts == SeqsUpTo({"a", "b", "\n"}, MaxTextLen)

SpliceMarkers == SeqsUpTo({"a", "b"}, 2) \ {<< >>}

SpliceContents == { << >>, <<"a">>, <<"b">>, <<"a", "b">> }

NoResult == [raised |-> FALSE, text |-> << >>]

\* the script does not run
ScriptIdle ==
    /\ pc = "idle"
    /\ bib_entries = << >>
    /\ talks_entries = << >>
    /\ buckets = EmptyBuckets
    /\ files = GoodFiles
    /\ texfile = 1
    /\ entry_index = 1
    /\ region = 1
    /\ cv = << >>
    /\ html_text = << >>
    /\ printed = << >>

SpliceInit ==
    /\ ScriptIdle
    /\ od = "idle"
    /\ \E t \in SpliceTexts, b \in SpliceMarkers, e \in SpliceMarkers :
         sp = [stage |-> "start", text |-> t, begin_marker |-> b,
               end_marker |-> e, new_content |-> << >>, first |-> NoResult,
               again_content |-> << >>, again |-> NoResult]

\* replace_between_markers(text, begin_marker, end_marker, new_content)
Splice ==
    /\ sp.stage = "start"
    /\ UNCHANGED <<script_vars, od>>
    /\ \E c \in SpliceContents :
         sp' = [sp EXCEPT
                  !.stage = "spliced",
                  !.new_content = c,
                  !.first = replace_between_markers(sp.text, sp.begin_marker,
                                                    sp.end_marker, c)]

\* the same markers spliced again into the text the first call returned
SpliceAgain ==
    /\ sp.stage = "spliced"
    /\ ~sp.first.raised
    /\ UNCHANGED <<script_vars, od>>
    /\ \E c \in SpliceContents :
         sp' = [sp EXCEPT
                  !.stage = "respliced",
                  !.again_content = c,
                  !.again = replace_between_markers(sp.first.text,
                                sp.begin_marker, sp.end_marker, c)]

SpliceNext == Splice \/ SpliceAgain

SpecSplice == SpliceInit /\ [][SpliceNext]_vars


----------------------------------------------------------------------------
(* The four splices of one document, applied in any order. The document    *)
(* holds each marker pair once, the regions one after the other in any     *)
(* layout; the contents are those the script makes of the sample records,  *)
(* or of no record.                                                        *)

\* the orders of the four regions
Orders == { p \in [Regions -> Regions] : \A a, b \in Regions : 
                                             a # b => p[a] # p[b] }

\* the buckets after the script has formatted the sample records
SampleBuckets ==
    bucket_talk(
        bucket_talk(
            bucket_publication(
                bucket_publication(EmptyBuckets, PubArticle2020),
                PubInproceedings2021),
            TalkKeynote),
        TalkSeminar)

MarkersOfKind(kind) == IF kind = "html" THEN html_markers ELSE tex_markers

ContentsOfKind(kind, b) == IF kind = "html" THEN html_content(b)
                                            ELSE tex_content(b)

OrderInit ==
    /\ ScriptIdle
    /\ sp = "idle"
    /\ \E kind \in {"tex", "html"}, layout \in Orders, order \in Orders,
          b \in {EmptyBuckets, SampleBuckets} :
         od = [kind |-> kind, layout |-> layout, order |-> order,
               contents |-> ContentsOfKind(kind, b), done |-> 0,
               text |-> Document(MarkersOfKind(kind), layout, {}),
               raised |-> FALSE]

\* text = replace_between_markers(text, ...) for the next region of the order
SpliceRegion ==
    /\ od.done < 4
    /\ ~od.raised
    /\ UNCHANGED <<script_vars, sp>>
    /\ LET r   == od.order[od.done + 1]
           res == replace_between_markers(od.text,
                      MarkersOfKind(od.kind)[r][1],
                      MarkersOfKind(od.kind)[r][2], od.contents[r])
       IN  od' = [od EXCEPT !.done = @ + 1,
                            !.text = IF res.raised THEN @ ELSE res.text,
                            !.raised = res.raised]

OrderNext == SpliceRegion

SpecOrder == OrderInit /\ [][OrderNext]_vars
----------------------------------------------------------------------------
(* Claims about the splicer *)

\* the marker occurs exactly once in the text
OccursOnce(text, marker) == Cardinality(Occurrences(text, marker)) = 1

\* the index of a marker that occurs once
Idx(text, marker) == CHOOSE i \in Occurrences(text, marker) : TRUE

\* B and E each occur exactly once, B entirely before E
OnceInOrder(text, b, e) ==
    /\ OccursOnce(text, b)
    /\ OccursOnce(text, e)
    /\ Idx(text, b) + Len(b) <= Idx(text, e)

SpOnceInOrder == OnceInOrder(sp.text, sp.begin_marker, sp.end_marker)

\* C1: when B and E each occur exactly once with B entirely before E, the
\* splice returns text[:idx(B)+len(B)] + newline + C + newline +
\* text[idx(E):], so the text up to and including B and the text from E on
\* are unchanged.
C1_SpliceResult ==
    (sp.stage = "spliced" /\ SpOnceInOrder) =>
        /\ ~sp.first.raised
        /\ sp.first.text =
             Slice(sp.text, 0, Idx(sp.text, sp.begin_marker)
                                 + Len(sp.begin_marker))
             \o <<"\n">> \o sp.new_content \o <<"\n">>
             \o SliceFrom(sp.text, Idx(sp.text, sp.end_marker))

C1_Witness ==
    /\ sp.stage = "spliced"
    /\ SpOnceInOrder
    /\ sp.new_content = <<"a", "b">>
    /\ Idx(sp.text, sp.begin_marker) > 0
    /\ Idx(sp.text, sp.end_marker) + Len(sp.end_marker) < Len(sp.text)
    /\ ~sp.first.raised

\* the end marker has an occurrence starting at or after the end of the
\* first occurrence of the begin marker
EndAfterBegin(text, b, e) ==
    /\ Contains(text, b)
    /\ \E i \in Occurrences(text, e) : i >= Min(Occurrences(text, b)) + Len(b)

\* C2: the splice fails exactly when the begin marker does not occur, or
\* the end marker has no occurrence starting at or after the end of the
\* first begin marker occurrence; it succeeds in every other case.
C2_FailsExactlyWhenMarkerMissing ==
    sp.stage = "spliced" =>
        (sp.first.raised <=>
            ~EndAfterBegin(sp.text, sp.begin_marker, sp.end_marker))

\* C5 as stated: for every content C and C2, splicing C2 into the result of
\* splicing C succeeds and equals splicing C2 into the original text.
C5_ResplicingAnyContent ==
    (sp.stage = "respliced" /\ SpOnceInOrder) =>
        /\ ~sp.again.raised
        /\ sp.again = replace_between_markers(sp.text, sp.begin_marker,
                          sp.end_marker, sp.again_content)

\* C5 amended: the same, for every content C whose splice leaves the end
\* marker occurring exactly once in the result; and then splicing the same
\* content twice gives the text of splicing it once.
C5_Resplicing ==
    (/\ sp.stage = "respliced"
     /\ SpOnceInOrder
     /\ OccursOnce(sp.first.text, sp.end_marker)) =>
        /\ ~sp.again.raised
        /\ sp.again = replace_between_markers(sp.text, sp.begin_marker,
                          sp.end_marker, sp.again_content)
        /\ (sp.again_content = sp.new_content => sp.again = sp.first)

C5_Witness ==
    /\ sp.stage = "respliced"
    /\ SpOnceInOrder
    /\ OccursOnce(sp.first.text, sp.end_marker)
    /\ sp.new_content = <<"a">>
    /\ sp.again_content = <<"a", "b">>
    /\ ~sp.again.raised


----------------------------------------------------------------------------
(* Claims about the script *)

\* the marker pairs and the contents of the four calls on document d
MarkersOf(d) == IF d = htmlfile THEN html_markers ELSE tex_markers

ContentsOf(d) == IF d = htmlfile THEN html_content(buckets)
                                 ELSE tex_content(buckets)

RECURSIVE SplicesFrom(_, _, _, _)
\* calls k to 4 on a text, in the order of the script: the text they give,
\* or the ValueError of the first that fails
SplicesFrom(text, markers, contents, k) ==
    IF k > 4 THEN Returned(text)
    ELSE LET r == replace_between_markers(text, markers[k][1], markers[k][2],
                                          contents[k])
         IN  IF r.raised THEN ValueError
             ELSE SplicesFrom(r.text, markers, contents, k + 1)

FourSplices(text, d) == SplicesFrom(text, MarkersOf(d), ContentsOf(d), 1)

\* C3: a document is written only after all four of its splices have
\* succeeded: whenever the content of a document's file changes, none of
\* the four splices of the content it had raised, and the new content is
\* what the four give; a document with a failing splice keeps its content.
C3_WrittenOnlyWhenAllSpliced ==
    [][\A d \in Documents :
          files'[d] # files[d] =>
              /\ ~FourSplices(files[d].text, d).raised
              /\ files'[d].text = FourSplices(files[d].text, d).text]_vars

\* the third splice of CV-Full.tex has raised after two that succeeded: the
\* text in memory is partly spliced, the file is as it was
C3_Witness ==
    /\ pc = "aborted"
    /\ texfile = 2
    /\ region = 3
    /\ cv # files["CV-Full.tex"].text
    /\ files["CV-Full.tex"] =
         OnDisk(Document(tex_markers, <<1, 2, 3, 4>>, {<<3, 2>>}))

\* the script has ended, by itself or by an exception
Finished == pc \in {"done", "aborted"}

\* document d exists and holds its four marker pairs
AllPairsPresent(d) ==
    /\ files[d].exists
    /\ \A k \in Regions :
         EndAfterBegin(files[d].text, MarkersOf(d)[k][1], MarkersOf(d)[k][2])

WasPrinted(d) == \E k \in 1..Len(printed) : printed[k] = d

\* C4: a marker-not-found failure is fatal only for its document: when the
\* run has ended, every document whose four marker pairs are all present
\* has been spliced and written, whichever document failed.
C4_OtherDocumentsStillWritten ==
    Finished =>
        \A d \in Documents :
            AllPairsPresent(d) =>
                /\ WasPrinted(d)
                /\ FourSplices(files[d].text, d) = Returned(files[d].text)

\* how many entries each loop has been through
ProcessedPubs ==
    IF pc = "sort_pubs" THEN 0
    ELSE IF pc = "pubs_loop" THEN entry_index - 1
    ELSE Len(bib_entries)

ProcessedTalks ==
    IF pc \in {"sort_pubs", "pubs_loop", "sort_talks"} THEN 0
    ELSE IF pc = "talks_loop" THEN entry_index - 1
    ELSE Len(talks_entries)

\* the kind of a publication record
KindOf(e) == Lower(e["ENTRYTYPE"])

IsConferenceTalk(e) == "type" \in DOMAIN e /\ e["type"] = CONFERENCE

\* the processed publications of a kind, the processed talks of a bucket
CountPubs(kind) ==
    Cardinality({ k \in 1..ProcessedPubs : KindOf(bib_entries[k]) = kind })

CountTalks(conf) ==
    Cardinality({ k \in 1..ProcessedTalks :
                    IsConferenceTalk(talks_entries[k]) = conf })

\* C6: bucketing is total and exclusive: in each dialect every processed
\* article has one fragment in journals and nowhere else, every processed
\* inproceedings one in conferences, every processed talk one in
\* conference-talks or other-talks, a publication of another kind none; the
\* bucket is the same in both dialects, and the fragments of a dialect are
\* as many as the records of recognized kind.
C6_BucketingTotalExclusive ==
    /\ Len(buckets.journal_tex_entries) = CountPubs(ARTICLE)
    /\ Len(buckets.journal_html_entries) = CountPubs(ARTICLE)
    /\ Len(buckets.conf_tex_entries) = CountPubs(INPROCEEDINGS)
    /\ Len(buckets.conf_html_entries) = CountPubs(INPROCEEDINGS)
    /\ Len(buckets.conf_talks_tex) = CountTalks(TRUE)
    /\ Len(buckets.conf_talks_html) = CountTalks(TRUE)
    /\ Len(buckets.other_talks_tex) = CountTalks(FALSE)
    /\ Len(buckets.other_talks_html) = CountTalks(FALSE)
    /\ Len(buckets.conf_talks_tex) + Len(buckets.other_talks_tex)
         = ProcessedTalks
    /\ Len(buckets.journal_tex_entries) + Len(buckets.conf_tex_entries)
         = ProcessedPubs - Cardinality({ k \in 1..ProcessedPubs :
               KindOf(bib_entries[k]) \notin {ARTICLE, INPROCEEDINGS} })

\* two talks bucketed, one of type "seminar" and one with no type
C6_Witness ==
    /\ pc = "done"
    /\ Len(talks_entries) = 2
    /\ \E k \in 1..2 : talks_entries[k] = TalkSeminar
    /\ \E k \in 1..2 : talks_entries[k] = TalkUntyped
    /\ Len(buckets.other_talks_tex) = 2
    /\ Len(buckets.journal_html_entries) = 1

\* the buckets hold every record
BucketsFilled ==
    pc \notin {"idle", "sort_pubs", "pubs_loop", "sort_talks", "talks_loop"}

Digits == {"0", "1", "2", "3", "4", "5", "6", "7", "8", "9"}

RECURSIVE DecimalValue(_)
DecimalValue(s) ==
    IF s = << >> THEN 0
    ELSE 10 * DecimalValue(SubSeq(s, 1, Len(s) - 1)) + (Ord(s[Len(s)]) - 48)

\* the year of a record as a number; a missing or non-numeric year is
\* below every year
YearNumber(e) ==
    IF "year" \in DOMAIN e /\ e["year"] # << >>
       /\ \A k \in 1..Len(e["year"]) : e["year"][k] \in Digits
    THEN DecimalValue(e["year"])
    ELSE -1

YearDescending(records) ==
    \A a, b \in 1..Len(records) :
        a < b => YearNumber(records[a]) >= YearNumber(records[b])

PubsOfKind(kind) == SelectSeq(bib_entries, LAMBDA e : KindOf(e) = kind)

TalksOfBucket(conf) ==
    SelectSeq(talks_entries, LAMBDA e : IsConferenceTalk(e) = conf)

PubLines(records, html) ==
    [k \in 1..Len(records) |-> format_publication(records[k], html)[2]]

TalkLines(records, html) ==
    [k \in 1..Len(records) |-> format_talk(records[k], html)[2]]

ListItems(lines) == [k \in 1..Len(lines) |-> LI_OPEN \o lines[k] \o LI_CLOSE]

\* C7: in every bucket the fragments are those of its records in
\* year-descending order, years compared as numbers and a missing or
\* non-numeric year being the lowest.
C7_BucketsYearDescending ==
    BucketsFilled =>
        /\ YearDescending(PubsOfKind(ARTICLE))
        /\ YearDescending(PubsOfKind(INPROCEEDINGS))
        /\ YearDescending(TalksOfBucket(TRUE))
        /\ YearDescending(TalksOfBucket(FALSE))
        /\ buckets.journal_tex_entries = PubLines(PubsOfKind(ARTICLE), FALSE)
        /\ buckets.conf_tex_entries
             = PubLines(PubsOfKind(INPROCEEDINGS), FALSE)
        /\ buckets.journal_html_entries
             = ListItems(PubLines(PubsOfKind(ARTICLE), TRUE))
        /\ buckets.conf_html_entries
             = ListItems(PubLines(PubsOfKind(INPROCEEDINGS), TRUE))
        /\ buckets.conf_talks_tex = TalkLines(TalksOfBucket(TRUE), FALSE)
        /\ buckets.other_talks_tex = TalkLines(TalksOfBucket(FALSE), FALSE)
        /\ buckets.conf_talks_html
             = ListItems(TalkLines(TalksOfBucket(TRUE), TRUE))
        /\ buckets.other_talks_html
             = ListItems(TalkLines(TalksOfBucket(FALSE), TRUE))

\* no brace and no escape sequence of the table
EscapeFree(s) ==
    /\ ~Contains(s, <<"{">>)
    /\ ~Contains(s, <<"}">>)
    /\ \A k \in 1..Len(replacements) : ~Contains(s, replacements[k][1])

Fragments(bucket) == { bucket[k] : k \in 1..Len(bucket) }

WebFragments ==
    Fragments(buckets.journal_html_entries)
    \cup Fragments(buckets.conf_html_entries)
    \cup Fragments(buckets.conf_talks_html)
    \cup Fragments(buckets.other_talks_html)

TexPubFragments ==
    Fragments(buckets.journal_tex_entries)
    \cup Fragments(buckets.conf_tex_entries)

TexTalkFragments ==
    Fragments(buckets.conf_talks_tex) \cup Fragments(buckets.other_talks_tex)

\* C8: in the web dialect every free-text field of every record, talks
\* included, is normalized, so no web fragment holds a brace or an escape
\* sequence of the table; in the structured-markup dialect the title of a
\* talk is passed through untouched.
C8_WebFragmentsNormalized ==
    BucketsFilled =>
        /\ \A f \in WebFragments : EscapeFree(f)
        /\ \A k \in 1..Len(talks_entries) :
             \E f \in TexTalkFragments :
                 Contains(f, Get(talks_entries[k], "title", EMPTY))

\* the braces of s are balanced
Balanced(s) ==
    /\ \A n \in 0..Len(s) :
         Cardinality({ k \in 1..n : s[k] = "{" })
           >= Cardinality({ k \in 1..n : s[k] = "}" })
    /\ Cardinality({ k \in 1..Len(s) : s[k] = "{" })
         = Cardinality({ k \in 1..Len(s) : s[k] = "}" })

\* the title without its outer brace group, if one group wraps all of it
WithoutOuterGroup(title) ==
    IF /\ Len(title) >= 2
       /\ title[1] = "{"
       /\ title[Len(title)] = "}"
       /\ Balanced(SubSeq(title, 2, Len(title) - 1))
    THEN SubSeq(title, 2, Len(title) - 1)
    ELSE title

\* C10: format_publication removes from the title at most the one brace
\* group that wraps all of it: the structured-markup fragment of a record
\* whose title has balanced braces holds the title as it is or without
\* that group, its other braces kept (and so balanced).
C10_TitleLosesOneOuterGroup ==
    BucketsFilled =>
        \A k \in 1..Len(bib_entries) :
            LET title == Get(bib_entries[k], "title", EMPTY)
            IN  (/\ KindOf(bib_entries[k]) \in {ARTICLE, INPROCEEDINGS}
                 /\ Balanced(title)) =>
                    \E f \in TexPubFragments,
                       t \in {title, WithoutOuterGroup(title)} :
                        /\ Balanced(t)
                        /\ Contains(f, DOT_SP \o t \o TEXTIT_OPEN)

----------------------------------------------------------------------------
(* The claim about the order of the splices *)

\* C9: region order does not matter: for a document holding each of the
\* four marker pairs once, its regions one after the other, and contents
\* holding no marker, the four splices in any of the 24 orders succeed and
\* give the text they give in the order of the script.
C9_RegionOrderIrrelevant ==
    od.done = 4 =>
        /\ ~od.raised
        /\ Returned(od.text)
             = SplicesFrom(Document(MarkersOfKind(od.kind), od.layout, {}),
                           MarkersOfKind(od.kind), od.contents, 1)

C9_Witness ==
    /\ od.done = 4
    /\ ~od.raised
    /\ od.order = <<4, 2, 3, 1>>
    /\ od.layout = <<2, 4, 1, 3>>
    /\ od.contents = tex_content(SampleBuckets)

====
